---- MODULE Spec2Model ----
(***************************************************************************)
(* AutoAssis: the two variants of the web backend kept in the repository.  *)
(*   "root"    = src/app.py          (SQLite, sessoes table, no premium)   *)
(*   "backend" = src/backend/app.py  (MySQL, premium flag and trial gate)  *)
(* A behaviour runs one of the two programs; `variant` says which.  A       *)
(* request handler is one atomic action (one request per worker), except   *)
(* for the requests of `threads`, which run at the same time, step by      *)
(* step, and share the tables, the file `temp_file` and the memory of the  *)
(* vision model object `brain`.                                            *)
(* Text is a sequence of characters; a character is a one-element string,  *)
(* except "e_acute", which stands for a character of two UTF-8 bytes.      *)
(* Beside the tables: `deleted` counts the user rows removed by hand (the  *)
(* AUTO_INCREMENT values are the row count plus these), `held` the set of  *)
(* tokens clients keep, `hits` the counters of the rate limiter, and `db`  *)
(* the storage connections the last handler opened and closed.             *)
(***************************************************************************)
EXTENDS Integers, Sequences, FiniteSets, TLC

VARIABLES variant, users, chats, sessoes, now, ticks, resp,
          deleted, held, hits, db, threads, temp_file, brain

vars == <<variant, users, chats, sessoes, now, ticks, resp, deleted, held, hits, db,
          threads, temp_file, brain>>

(* ------------------------------ bounds -------------------------------- *)

MaxChats == 2
MaxSessions == 1
MaxTicks == 1
MaxDeletes == 1
MaxHeld == 2

(* ------------------------- program constants -------------------------- *)

MinNome == 2
MinPassword == 6
MaxPassword == 72
BcryptBytes == 72
MaxMessage == 2000
TrialDays == 30
DaySecs == 24 * 60 * 60

(* ------------------------------- text --------------------------------- *)

Rep(c, n) == [i \in 1..n |-> c]

\* Python's None, kept apart from every text (no text holds this element).
None == <<"NoneType">>

Spaces == {" "}

RECURSIVE lstrip(_)
lstrip(s) == IF s # <<>> /\ Head(s) \in Spaces THEN lstrip(Tail(s)) ELSE s

RECURSIVE rstrip(_)
rstrip(s) ==
    IF s # <<>> /\ s[Len(s)] \in Spaces THEN rstrip(SubSeq(s, 1, Len(s) - 1)) ELSE s

\* str.strip()
strip(s) == rstrip(lstrip(s))

lower_char(c) == IF c = "A" THEN "a" ELSE IF c = "X" THEN "x" ELSE c

\* str.lower()
lower(s) == [i \in 1..Len(s) |-> lower_char(s[i])]

\* "c" in s
contains(s, c) == \E i \in 1..Len(s) : s[i] = c

\* s[:n]
prefix(s, n) == SubSeq(s, 1, IF Len(s) < n THEN Len(s) ELSE n)

Utf8Width(c) == IF c = "e_acute" THEN 2 ELSE 1

RECURSIVE encode(_)
\* str.encode('utf-8'): byte k of character c is <<c, k>>
encode(s) ==
    IF s = <<>> THEN <<>>
    ELSE [k \in 1..Utf8Width(Head(s)) |-> <<Head(s), k>>] \o encode(Tail(s))

RECURSIVE decode(_)
\* bytes.decode('utf-8'), strict: [ok |-> FALSE] is UnicodeDecodeError
decode(bs) ==
    IF bs = <<>> THEN [ok |-> TRUE, val |-> <<>>]
    ELSE LET c == bs[1][1]
             w == Utf8Width(c)
         IN  IF Len(bs) < w \/ \E k \in 1..w : bs[k] # <<c, k>>
             THEN [ok |-> FALSE, val |-> <<>>]
             ELSE LET rest == decode(SubSeq(bs, w + 1, Len(bs)))
                  IN  IF rest.ok THEN [ok |-> TRUE, val |-> <<c>> \o rest.val]
                      ELSE rest

(* ------------------------------ bcrypt -------------------------------- *)

\* passlib.hash.bcrypt: the digest depends on the first 72 bytes of the
\* secret only (the salt is left out: no handler reads it).
bcrypt_hash(secret) == [alg |-> "bcrypt", digest |-> prefix(encode(secret), BcryptBytes)]

bcrypt_verify(secret, hashed) == prefix(encode(secret), BcryptBytes) = hashed.digest

\* pwd[:72].encode('utf-8')[:72].decode('utf-8')
pwd_truncated(pwd) == decode(prefix(encode(prefix(pwd, BcryptBytes)), BcryptBytes))

\* [ok |-> FALSE] is the exception the truncation raises
hash_password(pwd) ==
    LET t == pwd_truncated(pwd)
    IN  IF t.ok THEN [ok |-> TRUE, val |-> bcrypt_hash(t.val)]
        ELSE [ok |-> FALSE, val |-> bcrypt_hash(<<>>)]

verify_password(pwd, hashed) ==
    LET t == pwd_truncated(pwd)
    IN  IF t.ok THEN [ok |-> TRUE, val |-> bcrypt_verify(t.val, hashed)]
        ELSE [ok |-> FALSE, val |-> FALSE]

(* ------------------------------- time --------------------------------- *)

\* datetime.now(timezone.utc): seconds since the start of the behaviour
utcnow_aware(t) == [secs |-> t, tzinfo |-> "utc"]

\* datetime.utcnow(), and a DATETIME column read back by pymysql: naive
utcnow_naive(t) == [secs |-> t, tzinfo |-> "naive"]

isoformat(dt) == [iso |-> dt]

fromisoformat(s) == s.iso

\* created_at.replace(tzinfo=timezone.utc): same wall clock, now aware
replace_utc(dt) == [secs |-> dt.secs, tzinfo |-> "utc"]

\* (a - b).days for two aware datetimes: whole days, rounded down
days_between(a, b) == (a.secs - b.secs) \div DaySecs

JWT_ACCESS_TOKEN_EXPIRES == 24 * 60 * 60

JWT_REFRESH_TOKEN_EXPIRES == 30 * DaySecs

\* the clock moves in these steps (seconds)
TickDeltas == {TrialDays * DaySecs - 1, TrialDays * DaySecs}

(* ------------------------------ inputs -------------------------------- *)

N_al == <<"A", "l">>

Names == {N_al, <<>>}

E_a == <<"a", "@", "x">>

E_A == <<"A", "@", "x">>

E_b == <<"b", "@", "x">>

Emails == {E_a, E_A, E_b}

P_secret == <<"s", "e", "c", "r", "e", "t">>

\* one leading blank: seven characters
P_blank == <<" ">> \o P_secret

P_short == <<"s", "h", "o", "r", "t">>

\* 41 characters, 81 bytes: byte 72 falls inside a character
P_wide == <<"x">> \o Rep("e_acute", 40)

CadastroPasswords == {P_secret, P_blank, P_short}

\* one character
N_a == <<"A">>

\* no "@"
E_noat == <<"a", "x">>

\* 73 characters
P_long == Rep("s", MaxPassword + 1)

\* the registrations of the input constraints; None is a request without
\* the password field
RegisterNames == {N_al, N_a}

RegisterEmails == {E_a, E_noat}

RegisterPasswords == {P_secret, P_short, P_long, None}

LoginPasswords == {P_secret, P_blank, P_wide}

M_oi == <<"o", "i">>

M_long == Rep("a", MaxMessage + 1)

Messages == {None, M_oi, M_long}

Img == <<"d", "a", "t", "a", ",", "i", "m", "g">>

Images == {None, Img}

\* another picture
Img2 == <<"d", "a", "t", "a", ",", "j", "p", "g">>

Pictures == {Img, Img2}

Limits == {1, 100}

T_laudo == <<"l", "a", "u", "d", "o">>

Texts == {None, T_laudo}

(* ------------------------------ the store ----------------------------- *)

\* str(user["id"]) and the way back (int(...), MySQL's comparison of an
\* INT column with a quoted number)
str(n) == ToString(n)

int(s) == CHOOSE n \in 0..(Cardinality(Emails) + MaxDeletes + 2) : ToString(n) = s

\* SELECT * FROM users WHERE email = ?   (no row: the empty sequence)
select_by_email(us, email) == SelectSeq(us, LAMBDA u : u.email = email)

\* SELECT * FROM users WHERE id = ?
select_by_id(us, id) == SelectSeq(us, LAMBDA u : u.id = id)

\* the identities for which a signed, unexpired access token can be held:
\* tokens are minted by login only, for the row it found
Identities == {str(users[i].id) : i \in 1..Len(users)}

NoBody == [none |-> TRUE]

\* the limiter's storage before any request
NoHits == <<>>

\* the connections a handler opened and those closed when it returned
NoConnection == [opened |-> 0, closed |-> 0]

\* backend get_db(): a context manager that closes cursor and connection in
\* its finally clause, whatever happens inside the with block
pymysql_connections(n) == [opened |-> n, closed |-> n]

\* root get_db(): `with sqlite3.connect(...) as db` commits or rolls back and
\* leaves the connection open; no handler calls close().  Whether the
\* interpreter has finalized the dropped connection objects by the time the
\* handler returns (finalized) is up to the runtime.
sqlite_connections(n, finalized) ==
    [opened |-> n, closed |-> IF finalized THEN n ELSE 0]

\* the worker threads that serve requests at the same time
Threads == {"t1", "t2"}

\* a thread that serves no request
Idle == [pc |-> "idle"]

\* the file temp_vision_upload.png does not exist
NoFile == [exists |-> FALSE]

\* the vision model object remembers no message
NoMemory == <<>>

\* one request and its answer: the endpoint, what was sent (req), the token's
\* identity (ident), the collaborators the handler called (invoked), and the
\* status, error text and JSON body it answered
Response(endpoint, req, status, error, ident, invoked, body) ==
    [endpoint |-> endpoint, req |-> req, status |-> status, error |-> error,
     ident |-> ident, invoked |-> invoked, body |-> body]

TypeOK ==
    /\ variant \in {"root", "backend"}
    /\ Len(users) <= Cardinality(Emails)
    /\ Len(chats) <= MaxChats
    /\ ticks \in 0..MaxTicks
    /\ now \in Nat

Init ==
    /\ variant \in {"root", "backend"}
    /\ users = <<>>
    /\ chats = <<>>
    /\ sessoes = <<>>
    /\ now = 0
    /\ ticks = 0
    /\ resp = Response("none", NoBody, 0, "", "", {}, NoBody)
    /\ deleted = [users |-> 0, chats |-> 0]
    /\ held = {}
    /\ hits = NoHits
    /\ db = NoConnection
    /\ threads = [t \in Threads |-> Idle]
    /\ temp_file = NoFile
    /\ brain = NoMemory

\* the clock advances between requests
Tick ==
    /\ ticks < MaxTicks
    /\ \E d \in TickDeltas : now' = now + d
    /\ ticks' = ticks + 1
    /\ UNCHANGED <<variant, users, chats, sessoes, resp, deleted, held, threads, temp_file, brain, hits, db>>

(* --------------------------- trial gate ------------------------------- *)

\* mutant: the premium flag is not looked at
is_trial_expired_no_flag(user, t) ==
    LET c0 == user.created_at
        c1 == IF "iso" \in DOMAIN c0 THEN fromisoformat(c0) ELSE c0
        c2 == IF c1.tzinfo = "naive" THEN replace_utc(c1) ELSE c1
    IN  days_between(utcnow_aware(t), c2) >= TrialDays

\* mutant: the thirtieth day still counts as trial
is_trial_expired_strict(user, t) ==
    IF user.is_premium THEN FALSE
    ELSE LET c0 == user.created_at
             c1 == IF "iso" \in DOMAIN c0 THEN fromisoformat(c0) ELSE c0
             c2 == IF c1.tzinfo = "naive" THEN replace_utc(c1) ELSE c1
         IN  days_between(utcnow_aware(t), c2) > TrialDays

\* backend is_trial_expired(user), at clock reading t
is_trial_expired(user, t) ==
    IF user.is_premium THEN FALSE
    ELSE LET c0 == user.created_at
             c1 == IF "iso" \in DOMAIN c0 THEN fromisoformat(c0) ELSE c0
             c2 == IF c1.tzinfo = "naive" THEN replace_utc(c1) ELSE c1
         IN  days_between(utcnow_aware(t), c2) >= TrialDays

(* ------------------------------ tokens -------------------------------- *)

create_access_token(identity, t) ==
    [typ |-> "access", sub |-> identity, exp |-> t + JWT_ACCESS_TOKEN_EXPIRES]

create_refresh_token(identity, t) ==
    [typ |-> "refresh", sub |-> identity, exp |-> t + JWT_REFRESH_TOKEN_EXPIRES]

(* ------------------------- POST /api/cadastro ------------------------- *)

Outcome(status, error, body, us) ==
    [status |-> status, error |-> error, body |-> body, users |-> us]

\* data.get(key, default) of a request whose field is v, None when absent
data_get(v, default) == IF v = None THEN default ELSE v

\* root cadastro(): the response and the users table it leaves
root_cadastro_out(us, t, nome0, email0, password0) ==
    LET nome == strip(nome0)
        email == strip(lower(email0))
        password == strip(data_get(password0, <<>>))
        hashed == hash_password(password)
    IN  IF nome = <<>> \/ Len(nome) < MinNome
        THEN Outcome(400, "Nome deve ter pelo menos 2 caracteres", NoBody, us)
        ELSE IF email = <<>> \/ ~contains(email, "@")
        THEN Outcome(400, "Email invalido", NoBody, us)
        ELSE IF Len(password) < MinPassword
        THEN Outcome(400, "Senha deve ter pelo menos 6 caracteres", NoBody, us)
        ELSE IF Len(password) > MaxPassword
        THEN Outcome(400, "Senha nao pode ter mais de 72 caracteres", NoBody, us)
        ELSE IF select_by_email(us, email) # <<>>
        THEN Outcome(409, "Email ja cadastrado", NoBody, us)
        ELSE IF ~hashed.ok
        THEN Outcome(500, "Erro ao processar cadastro", NoBody, us)
        ELSE Outcome(201, "", NoBody,
                     Append(us, [id |-> Len(us) + deleted.users + 1, nome |-> nome, email |-> email,
                                 password |-> hashed.val,
                                 data_criacao |-> isoformat(utcnow_naive(t))]))

\* mutant: the email is stored and compared as sent, without .lower()
backend_cadastro_out_as_sent(us, t, nome, email, password) ==
    IF nome = <<>> \/ email = <<>>
    THEN Outcome(400, "Dados invalidos", NoBody, us)
    ELSE IF password = None
    THEN Outcome(500, "Internal Server Error", NoBody, us)
    ELSE IF Len(password) < MinPassword
    THEN Outcome(400, "Dados invalidos", NoBody, us)
    ELSE IF select_by_email(us, email) # <<>>
    THEN Outcome(409, "Erro ao processar cadastro ou email ja existe", NoBody, us)
    ELSE Outcome(201, "", NoBody,
                 Append(us, [id |-> Len(us) + deleted.users + 1, nome |-> nome, email |-> email,
                             password |-> bcrypt_hash(password),
                             is_premium |-> FALSE,
                             created_at |-> utcnow_naive(t)]))

\* backend cadastro(): len(None) raises outside the try and nothing catches
\* it; any failure of the INSERT (the UNIQUE email) is a 409
backend_cadastro_out(us, t, nome, email, password) ==
    IF nome = <<>> \/ email = <<>>
    THEN Outcome(400, "Dados invalidos", NoBody, us)
    ELSE IF password = None
    THEN Outcome(500, "Internal Server Error", NoBody, us)
    ELSE IF Len(password) < MinPassword
    THEN Outcome(400, "Dados invalidos", NoBody, us)
    ELSE IF select_by_email(us, lower(email)) # <<>>
    THEN Outcome(409, "Erro ao processar cadastro ou email ja existe", NoBody, us)
    ELSE Outcome(201, "", NoBody,
                 Append(us, [id |-> Len(us) + deleted.users + 1, nome |-> nome, email |-> lower(email),
                             password |-> bcrypt_hash(password),
                             is_premium |-> FALSE,
                             created_at |-> utcnow_naive(t)]))

root_cadastro_view(nome, email, password) ==
    /\ variant = "root"
    /\ LET out == root_cadastro_out(users, now, nome, email, password)
       IN  /\ users' = out.users
           /\ resp' = Response("cadastro",
                              [nome |-> nome, email |-> email, password |-> password],
                              out.status, out.error, "", {}, out.body)
    /\ UNCHANGED <<variant, chats, sessoes, now, ticks>>
    /\ \E f \in BOOLEAN :
          db' = sqlite_connections(
                   LET st == root_cadastro_out(users, now, nome, email, password).status
                   IN  IF st = 400 THEN 0 ELSE IF st = 409 THEN 1 ELSE 2, f)
    /\ UNCHANGED <<deleted, held, threads, temp_file, brain>>

\* the request as sent from an address outside Clients: hits keeps the
\* counters of the addresses in Clients only
root_cadastro(nome, email, password) ==
    root_cadastro_view(nome, email, password) /\ UNCHANGED hits

backend_cadastro_view(nome, email, password) ==
    /\ variant = "backend"
    /\ LET out == backend_cadastro_out(users, now, nome, email, password)
       IN  /\ users' = out.users
           /\ resp' = Response("cadastro",
                              [nome |-> nome, email |-> email, password |-> password],
                              out.status, out.error, "", {}, out.body)
    /\ UNCHANGED <<variant, chats, sessoes, now, ticks>>
    /\ db' = pymysql_connections(
                 IF backend_cadastro_out(users, now, nome, email, password).status
                       \in {400, 500}
                 THEN 0 ELSE 1)
    /\ UNCHANGED <<deleted, held, threads, temp_file, brain>>

\* the request as sent from an address outside Clients: hits keeps the
\* counters of the addresses in Clients only
backend_cadastro(nome, email, password) ==
    backend_cadastro_view(nome, email, password) /\ UNCHANGED hits

(* --------------------------- POST /api/login -------------------------- *)

\* root login(): the response; the sessoes row is written by the action
root_login_out(us, t, email0, password) ==
    LET email == strip(lower(email0))
        rows == select_by_email(us, email)
        checked == verify_password(password, rows[1].password)
    IN  IF email = <<>> \/ password = <<>>
        THEN Outcome(400, "Email e senha sao obrigatorios", NoBody, us)
        ELSE IF rows = <<>>
        THEN Outcome(401, "Email ou senha incorretos", NoBody, us)
        ELSE IF ~checked.ok
        THEN Outcome(500, "Erro ao processar login", NoBody, us)
        ELSE IF ~checked.val
        THEN Outcome(401, "Email ou senha incorretos", NoBody, us)
        ELSE Outcome(200, "",
                     [access_token |-> create_access_token(str(rows[1].id), t),
                      user |-> [id |-> rows[1].id, nome |-> rows[1].nome,
                                email |-> rows[1].email]],
                     us)

backend_login_out(us, t, email, password) ==
    LET rows == select_by_email(us, lower(email))
    IN  IF rows = <<>> \/ ~bcrypt_verify(password, rows[1].password)
        THEN Outcome(401, "Credenciais invalidas", NoBody, us)
        ELSE Outcome(200, "",
                     [access_token |-> create_access_token(str(rows[1].id), t),
                      refresh_token |-> create_refresh_token(str(rows[1].id), t),
                      user |-> [nome |-> rows[1].nome,
                                is_premium |-> rows[1].is_premium,
                                trial_expired |-> is_trial_expired(rows[1], t)]],
                     us)

\* the INSERT INTO sessoes may fail; login logs that and goes on
root_login_view(email, password, insert_fails) ==
    /\ variant = "root"
    /\ LET out == root_login_out(users, now, email, password)
       IN  /\ resp' = Response("login", [email |-> email, password |-> password],
                              out.status, out.error, "", {}, out.body)
           /\ IF out.status = 200 /\ ~insert_fails
              THEN /\ Len(sessoes) < MaxSessions
                   /\ sessoes' = Append(sessoes,
                          [user_id |-> out.body.user.id,
                           token |-> out.body.access_token,
                           data_criacao |-> isoformat(utcnow_naive(now)),
                           data_expiracao |->
                               isoformat(utcnow_naive(now + JWT_ACCESS_TOKEN_EXPIRES))])
              ELSE UNCHANGED sessoes
    /\ UNCHANGED <<variant, users, chats, now, ticks>>
    /\ \E f \in BOOLEAN :
          db' = sqlite_connections(
                   LET st == root_login_out(users, now, email, password).status
                   IN  IF st = 400 THEN 0 ELSE IF st = 200 THEN 2 ELSE 1, f)
    /\ UNCHANGED <<deleted, held, threads, temp_file, brain>>

\* the request as sent from an address outside Clients: hits keeps the
\* counters of the addresses in Clients only
root_login(email, password, insert_fails) ==
    root_login_view(email, password, insert_fails) /\ UNCHANGED hits

backend_login_view(email, password) ==
    /\ variant = "backend"
    /\ LET out == backend_login_out(users, now, email, password)
       IN  resp' = Response("login", [email |-> email, password |-> password],
                              out.status, out.error, "", {}, out.body)
    /\ UNCHANGED <<variant, users, chats, sessoes, now, ticks>>
    /\ db' = pymysql_connections(1)
    /\ UNCHANGED <<deleted, held, threads, temp_file, brain>>

\* the request as sent from an address outside Clients: hits keeps the
\* counters of the addresses in Clients only
backend_login(email, password) ==
    backend_login_view(email, password) /\ UNCHANGED hits

(* ---------------------------- collaborators --------------------------- *)

\* what the upstream model does when it is called
Upstream == {"answers"}

\* the same with a failing upstream model: the call of the model raises
\* (connection error, timeout, quota, an image that does not decode)
UpstreamOutcomes == {"answers", "raises"}

\* Python truth value of a text or None
truthy(v) == v # None /\ v # <<>>

\* src/autoai.py gerar_resposta: PROMPTS is a list, so PROMPTS.get raises
\* before the model is invoked and the generic apology is returned
autoai_gerar_resposta(mensagem, user_id, categoria) ==
    "Desculpe, ocorreu um erro ao processar sua mensagem. Tente novamente."

\* src/backend/nogai.py gerar_resposta: never raises
nogai_gerar_resposta(mensagem, user_id, upstream) ==
    IF upstream = "answers" THEN "resposta do NOG"
    ELSE "Erro local ao processar sua solicitacao. Verifique a conexao com o servidor Ollama."

\* src/backend/vision_ai.py analisar_imagem: never raises
analisar_imagem(image_b64, pergunta, upstream) ==
    IF upstream = "answers" THEN "analise do NOG"
    ELSE "O NOG nao conseguiu analisar esta imagem no momento."

ImagemPlaceholder == <<"[", "I", "m", "a", "g", "e", "m", "]">>

(* ---------------------------- POST /api/chat -------------------------- *)

ChatOutcome(status, error, body, invoked, cs) ==
    [status |-> status, error |-> error, body |-> body, invoked |-> invoked,
     chats |-> cs]

\* root chat(): the history write is wrapped in its own try/except
root_chat_out(cs, t, ident, msg, img, insert_fails) ==
    LET user_id == int(ident)
        message == strip(IF msg = None THEN <<>> ELSE msg)
        categoria == "geral"
        resposta == autoai_gerar_resposta(message, user_id, categoria)
    IN  IF msg = None /\ img = None
        THEN ChatOutcome(400, "JSON vazio", NoBody, {}, cs)
        ELSE IF message = <<>>
        THEN ChatOutcome(400, "Mensagem nao pode estar vazia", NoBody, {}, cs)
        ELSE IF Len(message) > MaxMessage
        THEN ChatOutcome(400, "Mensagem nao pode exceder 2000 caracteres", NoBody, {}, cs)
        ELSE ChatOutcome(200, "", [success |-> TRUE, response |-> resposta],
                         {"gerar_resposta"},
                         IF insert_fails THEN cs
                         ELSE Append(cs, [id |-> Len(cs) + deleted.chats + 1, user_id |-> user_id,
                                          categoria |-> categoria,
                                          mensagem_usuario |-> message,
                                          resposta_ia |-> resposta,
                                          data_criacao |-> isoformat(utcnow_aware(t))]))

\* backend chat(): one try block around the gate, the collaborator and the INSERT
backend_chat_out(us, cs, t, ident, msg, img, upstream, insert_fails) ==
    LET rows == select_by_id(us, int(ident))
        resposta == IF truthy(img) THEN analisar_imagem(img, msg, upstream)
                    ELSE nogai_gerar_resposta(msg, ident, upstream)
        invoked == IF truthy(img) THEN {"analisar_imagem"} ELSE {"gerar_resposta"}
    IN  IF rows = <<>>
        THEN ChatOutcome(500, "Erro interno ao processar chat.", NoBody, {}, cs)
        ELSE IF is_trial_expired(rows[1], t)
        THEN ChatOutcome(402, "TRIAL_EXPIRED", NoBody, {}, cs)
        ELSE IF insert_fails
        THEN ChatOutcome(500, "Erro interno ao processar chat.", NoBody, invoked, cs)
        ELSE ChatOutcome(200, "", [response |-> resposta], invoked,
                         Append(cs, [id |-> Len(cs) + deleted.chats + 1, user_id |-> int(ident),
                                     mensagem_usuario |->
                                         IF truthy(msg) THEN msg ELSE ImagemPlaceholder,
                                     resposta_ia |-> resposta,
                                     created_at |-> utcnow_naive(t)]))

root_chat_view(ident, msg, img, insert_fails) ==
    /\ variant = "root"
    /\ LET out == root_chat_out(chats, now, ident, msg, img, insert_fails)
       IN  /\ Len(out.chats) <= MaxChats
           /\ chats' = out.chats
           /\ resp' = Response("chat", NoBody, out.status, out.error, ident, out.invoked,
                            out.body)
    /\ UNCHANGED <<variant, users, sessoes, now, ticks>>
    /\ \E f \in BOOLEAN :
          db' = sqlite_connections(
                   IF root_chat_out(chats, now, ident, msg, img, insert_fails).status = 200
                   THEN 1 ELSE 0, f)
    /\ UNCHANGED <<deleted, held, threads, temp_file, brain>>

\* the request as sent from an address outside Clients: hits keeps the
\* counters of the addresses in Clients only
root_chat(ident, msg, img, insert_fails) ==
    root_chat_view(ident, msg, img, insert_fails) /\ UNCHANGED hits

backend_chat_view(ident, msg, img, upstream, insert_fails) ==
    /\ variant = "backend"
    /\ LET out == backend_chat_out(users, chats, now, ident, msg, img, upstream,
                                   insert_fails)
       IN  /\ Len(out.chats) <= MaxChats
           /\ chats' = out.chats
           /\ resp' = Response("chat", NoBody, out.status, out.error, ident, out.invoked,
                            out.body)
    /\ UNCHANGED <<variant, users, sessoes, now, ticks>>
    /\ db' = pymysql_connections(1)
    /\ UNCHANGED <<deleted, held, threads, temp_file, brain>>

\* the request as sent from an address outside Clients: hits keeps the
\* counters of the addresses in Clients only
backend_chat(ident, msg, img, upstream, insert_fails) ==
    backend_chat_view(ident, msg, img, upstream, insert_fails) /\ UNCHANGED hits

(* ------------------------ GET /api/chat/history ----------------------- *)

\* the orders ORDER BY created_at ASC may return rows in: rows of equal
\* created_at come in any order
OrdersByCreatedAt(rows) ==
    {p \in [1..Len(rows) -> 1..Len(rows)] :
        /\ \A i, j \in 1..Len(rows) : i # j => p[i] # p[j]
        /\ \A i, j \in 1..Len(rows) :
              i < j => rows[p[i]].created_at.secs <= rows[p[j]].created_at.secs}

\* SELECT mensagem_usuario, resposta_ia, created_at FROM chats WHERE user_id = ?
select_chats(cs, ident) == SelectSeq(cs, LAMBDA c : c.user_id = int(ident))

history_row(c) ==
    [mensagem_usuario |-> c.mensagem_usuario, resposta_ia |-> c.resposta_ia,
     created_at |-> isoformat(c.created_at)]

\* backend get_chat_history(): the `limit` of the query string is not read
get_chat_history(ident, limit) ==
    /\ variant = "backend"
    /\ LET rows == select_chats(chats, ident)
       IN  \E p \in OrdersByCreatedAt(rows) :
              resp' = Response("history", [limit |-> limit], 200, "", ident, {},
                               [chats |-> [i \in 1..Len(rows) |-> history_row(rows[p[i]])]])
    /\ UNCHANGED <<variant, users, chats, sessoes, now, ticks>>
    /\ db' = pymysql_connections(1)
    /\ UNCHANGED <<deleted, held, threads, temp_file, brain, hits>>

(* --------------------------- POST /api/pay/mock ----------------------- *)

\* mutant: the flag is flipped instead of set
mark_premium_toggle(us, id) ==
    [i \in 1..Len(us) |->
        IF us[i].id = id THEN [us[i] EXCEPT !.is_premium = ~us[i].is_premium] ELSE us[i]]

\* UPDATE users SET is_premium = TRUE WHERE id = ?
mark_premium(us, id) ==
    [i \in 1..Len(us) |->
        IF us[i].id = id THEN [us[i] EXCEPT !.is_premium = TRUE] ELSE us[i]]

pay(ident) ==
    /\ variant = "backend"
    /\ users' = mark_premium(users, int(ident))
    /\ resp' = Response("pay", NoBody, 200, "", ident, {},
                        [success |-> TRUE, message |-> "Upgrade concluido!"])
    /\ UNCHANGED <<variant, chats, sessoes, now, ticks>>
    /\ db' = pymysql_connections(1)
    /\ UNCHANGED <<deleted, held, threads, temp_file, brain, hits>>

(* ------------------------------ jwt_required -------------------------- *)

\* what a request carries in its Authorization header
NoAuthorization == [kind |-> "missing"]

\* "Bearer" followed by text that is not a JWT
Malformed == [kind |-> "malformed"]

\* a token this server signed
Bearer(tok) == [kind |-> "token", signed_by |-> "server", tok |-> tok]

\* the same claims, signed with another key
Forged(tok) == [kind |-> "token", signed_by |-> "other", tok |-> tok]

Credentials ==
    {NoAuthorization, Malformed} \cup {Bearer(k) : k \in held} \cup {Forged(k) : k \in held}

\* @jwt_required() with the callbacks JWTManager(app) installs: a missing
\* header and an expired token answer 401, a token that does not decode (bad
\* format, bad signature) and a refresh token answer 422, each with {"msg": ...}.
\* JWTManager registers a handler for each of these exception classes, so the
\* handler root registers for their base class JWTExtendedException
\* (handle_jwt_error) is never the most specific one.
jwt_required(cred, t) ==
    IF cred.kind = "missing"
    THEN [ok |-> FALSE, status |-> 401, msg |-> "Missing Authorization Header"]
    ELSE IF cred.kind = "malformed"
    THEN [ok |-> FALSE, status |-> 422, msg |-> "Not enough segments"]
    ELSE IF cred.signed_by # "server"
    THEN [ok |-> FALSE, status |-> 422, msg |-> "Signature verification failed"]
    ELSE IF cred.tok.exp <= t
    THEN [ok |-> FALSE, status |-> 401, msg |-> "Token has expired"]
    ELSE IF cred.tok.typ # "access"
    THEN [ok |-> FALSE, status |-> 422, msg |-> "Only non-refresh tokens are allowed"]
    ELSE [ok |-> TRUE, identity |-> cred.tok.sub]

\* the routes behind @jwt_required() in the running variant
ProtectedRoutes ==
    IF variant = "root" THEN {"user", "chat"}
    ELSE {"user", "chat", "history", "report", "pay"}

\* the decorator answers; the view is not entered
jwt_rejected(endpoint, cred) ==
    /\ endpoint \in ProtectedRoutes
    /\ ~jwt_required(cred, now).ok
    /\ resp' = Response(endpoint, [cred |-> cred], jwt_required(cred, now).status, "",
                        "", {}, [msg |-> jwt_required(cred, now).msg])
    /\ db' = NoConnection
    /\ UNCHANGED <<variant, users, chats, sessoes, now, ticks, deleted, held, threads, temp_file, brain, hits>>

\* a client keeps the tokens login has just answered with
keep_token ==
    /\ resp.endpoint = "login"
    /\ resp.status = 200
    /\ LET got == {resp.body.access_token} \cup
                  (IF "refresh_token" \in DOMAIN resp.body
                   THEN {resp.body.refresh_token} ELSE {})
       IN  /\ ~(got \subseteq held)
           /\ Cardinality(held \cup got) <= MaxHeld
           /\ held' = held \cup got
    /\ UNCHANGED <<variant, users, chats, sessoes, now, ticks, resp, deleted, threads, temp_file, brain, hits, db>>

\* the identities of the access tokens clients hold that jwt_required accepts
HeldIdentities ==
    {k.sub : k \in {h \in held : jwt_required(Bearer(h), now).ok}}

(* ------------------------- DELETE FROM users -------------------------- *)

\* No handler deletes a user; an operator does, on a connection like those of
\* get_db().  backend: InnoDB enforces FOREIGN KEY ... ON DELETE CASCADE.
\* root: SQLite enforces foreign keys only on a connection that has run
\* PRAGMA foreign_keys = ON, which get_db() does not: the chats and sessoes
\* rows of the user stay.
delete_user(id) ==
    /\ deleted.users < MaxDeletes
    /\ select_by_id(users, id) # <<>>
    /\ users' = SelectSeq(users, LAMBDA u : u.id # id)
    /\ IF variant = "backend"
       THEN /\ chats' = SelectSeq(chats, LAMBDA c : c.user_id # id)
            /\ deleted' = [users |-> deleted.users + 1,
                           chats |-> deleted.chats + Len(chats) - Len(chats')]
       ELSE /\ chats' = chats
            /\ deleted' = [deleted EXCEPT !.users = @ + 1]
    /\ UNCHANGED <<variant, sessoes, now, ticks, resp, held, threads, temp_file, brain, hits, db>>

(* ----------------------------- GET /api/user -------------------------- *)

root_get_user_info(ident) ==
    /\ variant = "root"
    /\ LET rows == select_by_id(users, int(ident))
       IN  resp' = IF rows = <<>>
                   THEN Response("user", NoBody, 404, "Usuario nao encontrado", ident, {},
                                 NoBody)
                   ELSE Response("user", NoBody, 200, "", ident, {},
                                 [id |-> rows[1].id, nome |-> rows[1].nome,
                                  email |-> rows[1].email,
                                  data_criacao |-> rows[1].data_criacao])
    /\ \E f \in BOOLEAN : db' = sqlite_connections(1, f)
    /\ UNCHANGED <<variant, users, chats, sessoes, now, ticks, deleted, held, threads, temp_file, brain, hits>>

\* backend get_user(): no try, no test of the row: with no row, {**user, ...}
\* raises TypeError and Flask answers 500
backend_get_user(ident) ==
    /\ variant = "backend"
    /\ LET rows == select_by_id(users, int(ident))
       IN  resp' = IF rows = <<>>
                   THEN Response("user", NoBody, 500, "Internal Server Error", ident, {},
                                 NoBody)
                   ELSE Response("user", NoBody, 200, "", ident, {},
                                 [nome |-> rows[1].nome, email |-> rows[1].email,
                                  created_at |-> rows[1].created_at,
                                  is_premium |-> rows[1].is_premium,
                                  trial_expired |-> is_trial_expired(rows[1], now)])
    /\ db' = pymysql_connections(1)
    /\ UNCHANGED <<variant, users, chats, sessoes, now, ticks, deleted, held, threads, temp_file, brain, hits>>

(* ---------------------------- POST /api/report ------------------------ *)

\* src/backend/report_generator.py criar_relatorio_pdf(usuario, dados_analise,
\* nome_arquivo_saida): a call with another number of arguments raises
\* TypeError; a complete call writes the file and returns True
criar_relatorio_pdf(args) ==
    IF Len(args) # 3 THEN [ok |-> FALSE, val |-> "TypeError"]
    ELSE [ok |-> TRUE, val |-> TRUE]

\* mutant: the row is looked up but its premium flag is not tested
generate_report_out_any_user(us, ident, text) ==
    LET rows == select_by_id(us, int(ident))
        made == criar_relatorio_pdf(<<text, ident>>)
    IN  IF ~truthy(text)
        THEN [status |-> 400, error |-> "Conteudo do relatorio vazio", body |-> NoBody,
              invoked |-> {}, opened |-> 0]
        ELSE IF rows = <<>>
        THEN [status |-> 403, error |-> "Recurso exclusivo para Premium", body |-> NoBody,
              invoked |-> {}, opened |-> 1]
        ELSE IF ~made.ok
        THEN [status |-> 500, error |-> "Falha na geracao do PDF", body |-> NoBody,
              invoked |-> {"criar_relatorio_pdf"}, opened |-> 1]
        ELSE [status |-> 200, error |-> "", body |-> [url |-> made.val],
              invoked |-> {"criar_relatorio_pdf"}, opened |-> 1]

\* backend generate_report_endpoint(): the generator is called with two
\* arguments (text_content, user_id)
generate_report_out(us, ident, text) ==
    LET rows == select_by_id(us, int(ident))
        made == criar_relatorio_pdf(<<text, ident>>)
    IN  IF ~truthy(text)
        THEN [status |-> 400, error |-> "Conteudo do relatorio vazio", body |-> NoBody,
              invoked |-> {}, opened |-> 0]
        ELSE IF rows = <<>> \/ ~rows[1].is_premium
        THEN [status |-> 403, error |-> "Recurso exclusivo para Premium", body |-> NoBody,
              invoked |-> {}, opened |-> 1]
        ELSE IF ~made.ok
        THEN [status |-> 500, error |-> "Falha na geracao do PDF", body |-> NoBody,
              invoked |-> {"criar_relatorio_pdf"}, opened |-> 1]
        ELSE [status |-> 200, error |-> "", body |-> [url |-> made.val],
              invoked |-> {"criar_relatorio_pdf"}, opened |-> 1]

generate_report_endpoint(ident, text) ==
    /\ variant = "backend"
    /\ LET out == generate_report_out(users, ident, text)
       IN  /\ resp' = Response("report", [text |-> text], out.status, out.error, ident,
                               out.invoked, out.body)
           /\ db' = pymysql_connections(out.opened)
    /\ UNCHANGED <<variant, users, chats, sessoes, now, ticks, deleted, held, threads, temp_file, brain, hits>>

(* ---------------------------- POST /api/logout ----------------------- *)

\* root logout(): reads the identity and answers; it writes nothing, and no
\* blocklist is configured for the tokens.  The backend has no such route.
logout(cred) ==
    /\ jwt_required(cred, now).ok
    /\ resp' = IF variant = "root"
               THEN Response("logout", [cred |-> cred], 200, "",
                             jwt_required(cred, now).identity, {},
                             [success |-> TRUE,
                              message |-> "Logout realizado com sucesso"])
               ELSE Response("logout", [cred |-> cred], 404, "Not Found", "", {}, NoBody)
    /\ db' = NoConnection
    /\ UNCHANGED <<variant, users, chats, sessoes, now, ticks, deleted, held, threads, temp_file, brain, hits>>

(* --------------------------- POST /api/refresh ------------------------ *)

\* neither variant registers a route /api/refresh: the request matches no
\* URL rule and is answered by the 404 handler, whatever it carries
refresh(cred) ==
    /\ resp' = Response("refresh", [cred |-> cred], 404,
                        IF variant = "root" THEN "Rota nao encontrada" ELSE "Not Found",
                        "", {}, NoBody)
    /\ db' = NoConnection
    /\ UNCHANGED <<variant, users, chats, sessoes, now, ticks, deleted, held, threads, temp_file, brain, hits>>

(* ------------------------------ limiter ------------------------------ *)

\* the client addresses whose requests are counted
Clients == {"10.0.0.1", "10.0.0.2"}

LimitedRoutes == {"cadastro", "login", "chat"}

PerMinute == 60

PerHour == 60 * 60

PerDay == 24 * 60 * 60

Limit(amount, per) == [amount |-> amount, per |-> per]

\* Limiter(default_limits=...): they apply to every route that has no limit
\* of its own, each route counted apart
default_limits ==
    IF variant = "root" THEN <<Limit(50, PerHour), Limit(200, PerDay)>>
    ELSE <<Limit(100, PerHour), Limit(500, PerDay)>>

\* the limits of a route, shortest period first: @limiter.limit on a route
\* replaces the defaults
route_limits(endpoint) ==
    IF variant = "root" /\ endpoint \in {"cadastro", "login"}
    THEN <<Limit(5, PerMinute)>>
    ELSE IF variant = "root" /\ endpoint = "chat"
    THEN <<Limit(20, PerMinute)>>
    ELSE default_limits

\* requests counted for a key in the fixed window that holds t
hit_count(h, key, t) ==
    IF key \in DOMAIN h /\ h[key].window = t \div key[3] THEN h[key].n ELSE 0

\* mutant: the requests are counted and none is refused
evaluate_limits_count_only(h, c, endpoint, t, lims) ==
    LET keys == {<<c, endpoint, lims[i].per>> : i \in 1..Len(lims)}
        amount(k) == (CHOOSE i \in 1..Len(lims) : lims[i].per = k[3])
        top(k) == lims[amount(k)].amount
        n(k) == hit_count(h, k, t)
    IN  [exceeded |-> FALSE,
         hits |-> [k \in DOMAIN h \cup keys |->
                      IF k \in keys
                      THEN [window |-> t \div k[3],
                            n |-> IF n(k) > top(k) THEN n(k) ELSE n(k) + 1]
                      ELSE h[k]]]

\* the before-request check of the limiter: one hit on each limit of the
\* route, keyed by client address, route and period, until one is exceeded.
\* A count above its limit is kept at amount + 1: all larger counts act alike.
RECURSIVE evaluate_limits(_, _, _, _, _)
evaluate_limits(h, c, endpoint, t, lims) ==
    IF lims = <<>> THEN [exceeded |-> FALSE, hits |-> h]
    ELSE LET l == Head(lims)
             key == <<c, endpoint, l.per>>
             n == hit_count(h, key, t)
             n1 == IF n > l.amount THEN n ELSE n + 1
             h1 == [k \in DOMAIN h \cup {key} |->
                       IF k = key THEN [window |-> t \div l.per, n |-> n1] ELSE h[k]]
         IN  IF n1 > l.amount THEN [exceeded |-> TRUE, hits |-> h1]
             ELSE evaluate_limits(h1, c, endpoint, t, Tail(lims))

\* the answer to a request over quota: the view function is not called
ratelimit_handler(endpoint) ==
    /\ resp' = Response(endpoint, NoBody, 429, "Muitas requisicoes", "", {}, NoBody)
    /\ db' = NoConnection
    /\ UNCHANGED <<variant, users, chats, sessoes, now, ticks, deleted, held, threads, temp_file, brain>>

\* a request of client address c to a route: the limiter runs before view
limited(c, endpoint, view) ==
    LET checked == evaluate_limits(hits, c, endpoint, now, route_limits(endpoint))
    IN  /\ hits' = checked.hits
        /\ IF checked.exceeded THEN ratelimit_handler(endpoint) ELSE view

limited_cadastro(c, nome, email, password) ==
    limited(c, "cadastro",
            root_cadastro_view(nome, email, password)
            \/ backend_cadastro_view(nome, email, password))

limited_login(c, email, password) ==
    limited(c, "login",
            root_login_view(email, password, FALSE)
            \/ backend_login_view(email, password))

limited_chat(c, ident, msg, insert_fails) ==
    limited(c, "chat",
            root_chat_view(ident, msg, None, insert_fails)
            \/ backend_chat_view(ident, msg, None, "answers", insert_fails))

(* ------------------- POST /api/cadastro, step by step ----------------- *)

\* the tables, clock and last answer that a step of a thread leaves alone
thread_frame == <<variant, chats, sessoes, now, ticks, resp, deleted, held, hits, db>>

Answered(req, status, error) ==
    [pc |-> "done", op |-> "cadastro", req |-> req, status |-> status, error |-> error]

\* root cadastro() up to the duplicate check: the validations and
\* get_user(email), which opens and leaves its own connection
root_cadastro_check(t, nome, email, password) ==
    /\ variant = "root"
    /\ threads[t].pc = "idle"
    /\ LET req == [nome |-> nome, email |-> email, password |-> password]
           out == root_cadastro_out(users, now, nome, email, password)
       IN  threads' = [threads EXCEPT ![t] =
                          IF out.status \in {400, 409}
                          THEN Answered(req, out.status, out.error)
                          ELSE [pc |-> "insert", op |-> "cadastro", req |-> req]]
    /\ UNCHANGED <<users, temp_file, brain>>
    /\ UNCHANGED thread_frame

\* root cadastro() from the INSERT on: the email column is UNIQUE, so the
\* INSERT of an email that was stored since the check raises, and the
\* handler's except answers 500
root_cadastro_insert_out(us, t, req) ==
    LET out == root_cadastro_out(us, t, req.nome, req.email, req.password)
    IN  IF out.status = 201 THEN out
        ELSE Outcome(500, "Erro ao processar cadastro", NoBody, us)

root_cadastro_insert(t) ==
    /\ variant = "root"
    /\ threads[t].pc = "insert"
    /\ LET out == root_cadastro_insert_out(users, now, threads[t].req)
       IN  /\ users' = out.users
           /\ threads' = [threads EXCEPT ![t] =
                             Answered(threads[t].req, out.status, out.error)]
    /\ UNCHANGED <<temp_file, brain>>
    /\ UNCHANGED thread_frame

\* backend cadastro(): the validation reads no table and the INSERT is one
\* statement, so the request takes effect in one step
backend_cadastro_thread(t, nome, email, password) ==
    /\ variant = "backend"
    /\ threads[t].pc = "idle"
    /\ LET req == [nome |-> nome, email |-> email, password |-> password]
           out == backend_cadastro_out(users, now, nome, email, password)
       IN  /\ users' = out.users
           /\ threads' = [threads EXCEPT ![t] = Answered(req, out.status, out.error)]
    /\ UNCHANGED <<temp_file, brain>>
    /\ UNCHANGED thread_frame

(* ----------------------- analisar_imagem, step by step ---------------- *)

\* image_b64.split(",")[1] when the text has a comma (the inputs have one)
split_comma(s) ==
    IF contains(s, ",")
    THEN LET i == CHOOSE k \in 1..Len(s) :
                     s[k] = "," /\ \A j \in 1..(k - 1) : s[j] # ","
         IN  SubSeq(s, i + 1, Len(s))
    ELSE s

\* base64.b64decode: the bytes the text stands for
b64decode(s) == [bytes |-> s]

\* what the vision model reports of the picture it is given
facts(raw) == [facts_of |-> raw]

\* the stage-1 result the text model finds in the recent memory
recent_facts(memory) ==
    LET i == CHOOSE k \in 1..Len(memory) :
                 /\ memory[k].stage = 1
                 /\ \A j \in (k + 1)..Len(memory) : memory[j].stage # 1
    IN  memory[i].facts

vision_frame == <<variant, users, chats, sessoes, now, ticks, resp, deleted, held, hits, db>>

\* backend analisar_imagem(), lines 44-50: decode the picture and write it
\* to temp_path, which is "temp_vision_upload.png" for every request
vision_write(t, image_b64) ==
    /\ variant = "backend"
    /\ threads[t].pc = "idle"
    /\ temp_file' = [exists |-> TRUE, data |-> b64decode(split_comma(image_b64))]
    /\ threads' = [threads EXCEPT ![t] =
                      [pc |-> "stage1", op |-> "vision", image |-> image_b64]]
    /\ UNCHANGED brain
    /\ UNCHANGED vision_frame

\* lines 52-57: the vision model reads the file at temp_path as it is now
\* and the shared object keeps the result in its memory; a file that is no
\* longer there makes the call raise, and the except returns the apology
vision_stage1(t) ==
    /\ variant = "backend"
    /\ threads[t].pc = "stage1"
    /\ IF temp_file.exists
       THEN /\ brain' = Append(brain, [stage |-> 1, facts |-> facts(temp_file.data)])
            /\ threads' = [threads EXCEPT ![t] =
                              [pc |-> "stage2", op |-> "vision",
                               image |-> threads[t].image, seen |-> temp_file.data]]
       ELSE /\ brain' = brain
            /\ threads' = [threads EXCEPT ![t] =
                              [pc |-> "finally", op |-> "vision",
                               image |-> threads[t].image, seen |-> NoFile,
                               based_on |-> NoFile,
                               resposta |-> "O NOG nao conseguiu analisar esta imagem no momento."]]
    /\ UNCHANGED temp_file
    /\ UNCHANGED vision_frame

\* lines 59-84: the text model answers from the analysis it finds in the
\* memory of the shared object; the picture is not sent again
vision_stage2(t) ==
    /\ variant = "backend"
    /\ threads[t].pc = "stage2"
    /\ brain' = Append(brain, [stage |-> 2, facts |-> recent_facts(brain)])
    /\ threads' = [threads EXCEPT ![t] =
                      [pc |-> "finally", op |-> "vision", image |-> threads[t].image,
                       seen |-> threads[t].seen,
                       based_on |-> recent_facts(brain),
                       resposta |-> "analise do NOG"]]
    /\ UNCHANGED temp_file
    /\ UNCHANGED vision_frame

\* lines 89-94: the finally clause removes temp_path when it exists
vision_finally(t) ==
    /\ variant = "backend"
    /\ threads[t].pc = "finally"
    /\ temp_file' = NoFile
    /\ threads' = [threads EXCEPT ![t].pc = "done"]
    /\ UNCHANGED brain
    /\ UNCHANGED vision_frame

\* root analisar_imagem(): the picture is decoded in memory and sent with
\* the question in one message; nothing is shared between requests
root_analisar_imagem(t, image_b64) ==
    /\ variant = "root"
    /\ threads[t].pc = "idle"
    /\ threads' = [threads EXCEPT ![t] =
                      [pc |-> "done", op |-> "vision", image |-> image_b64,
                       seen |-> b64decode(split_comma(image_b64)),
                       based_on |-> facts(b64decode(split_comma(image_b64))),
                       resposta |-> "analise"]]
    /\ UNCHANGED <<temp_file, brain>>
    /\ UNCHANGED vision_frame

(* --------------------------- the whole program ----------------------- *)

Next ==
    \/ Tick
    \/ \E n \in Names, e \in Emails, p \in CadastroPasswords : root_cadastro(n, e, p)
    \/ \E n \in Names, e \in Emails, p \in CadastroPasswords : backend_cadastro(n, e, p)
    \/ \E e \in Emails, p \in LoginPasswords, f \in BOOLEAN : root_login(e, p, f)
    \/ \E e \in Emails, p \in LoginPasswords : backend_login(e, p)
    \/ \E id \in Identities, m \in Messages, g \in Images, f \in BOOLEAN :
          root_chat(id, m, g, f)
    \/ \E id \in Identities, m \in Messages, g \in Images, u \in Upstream, f \in BOOLEAN :
          backend_chat(id, m, g, u, f)
    \/ \E id \in Identities, l \in Limits : get_chat_history(id, l)
    \/ \E id \in Identities : pay(id)
    \/ keep_token
    \/ \E i \in 1..Len(users) : delete_user(users[i].id)
    \/ \E ep \in ProtectedRoutes, c \in Credentials : jwt_rejected(ep, c)
    \/ \E id \in HeldIdentities : root_get_user_info(id)
    \/ \E id \in HeldIdentities : backend_get_user(id)
    \/ \E id \in HeldIdentities, x \in Texts : generate_report_endpoint(id, x)
    \/ \E c \in Credentials : refresh(c)
    \/ \E c \in Credentials : logout(c)
    \/ \E c \in Clients : limited_cadastro(c, N_al, E_a, P_secret)
    \/ \E c \in Clients : limited_login(c, E_a, P_secret)
    \/ \E c \in Clients, id \in Identities, f \in BOOLEAN : limited_chat(c, id, M_oi, f)
    \/ \E t \in Threads, n \in Names, e \in Emails :
          root_cadastro_check(t, n, e, P_secret)
    \/ \E t \in Threads : root_cadastro_insert(t)
    \/ \E t \in Threads, n \in Names, e \in Emails :
          backend_cadastro_thread(t, n, e, P_secret)
    \/ \E t \in Threads, i \in Pictures : vision_write(t, i)
    \/ \E t \in Threads : vision_stage1(t)
    \/ \E t \in Threads : vision_stage2(t)
    \/ \E t \in Threads : vision_finally(t)
    \/ \E t \in Threads, i \in Pictures : root_analisar_imagem(t, i)

Spec == Init /\ [][Next]_vars

(* Scenarios: each runs a part of Next.  login writes sessoes only, which  *)
(* no handler reads; chat and history leave users alone: so the users,     *)
(* chats and responses a scenario reaches are those the whole program      *)
(* reaches by the same requests.                                           *)

\* registration and login, with every input, at one clock reading
NextAuth ==
    \/ \E n \in Names, e \in Emails, p \in CadastroPasswords : root_cadastro(n, e, p)
    \/ \E n \in Names, e \in Emails, p \in CadastroPasswords : backend_cadastro(n, e, p)
    \/ \E e \in Emails, p \in LoginPasswords, f \in BOOLEAN : root_login(e, p, f)
    \/ \E e \in Emails, p \in LoginPasswords : backend_login(e, p)

SpecAuth == Init /\ [][NextAuth]_vars

\* registrations at the edges of the input constraints
NextRegister ==
    \/ \E n \in RegisterNames, e \in RegisterEmails, p \in RegisterPasswords :
          root_cadastro(n, e, p)
    \/ \E n \in RegisterNames, e \in RegisterEmails, p \in RegisterPasswords :
          backend_cadastro(n, e, p)

SpecRegister == Init /\ [][NextRegister]_vars

\* chat of two accounts while the upstream model answers or fails
NextUpstream ==
    \/ \E e \in {E_a, E_b} : root_cadastro(N_al, e, P_secret)
    \/ \E e \in {E_a, E_b} : backend_cadastro(N_al, e, P_secret)
    \/ \E id \in Identities : root_chat(id, M_oi, None, FALSE)
    \/ \E id \in Identities, i \in Images, u \in UpstreamOutcomes :
          backend_chat(id, M_oi, i, u, FALSE)

SpecUpstream == Init /\ [][NextUpstream]_vars

\* a client address is in a burst on a route when it has sent requests to
\* it in this window and has not yet been refused
InBurst(c, endpoint) ==
    LET l == Head(route_limits(endpoint))
        n == hit_count(hits, <<c, endpoint, l.per>>, now)
    IN  0 < n /\ n <= l.amount

\* no other address or route is in a burst
OneBurst(c, endpoint) ==
    \A c2 \in Clients, e2 \in LimitedRoutes :
        <<c2, e2>> # <<c, endpoint>> => ~InBurst(c2, e2)

\* two client addresses send bursts of requests, one burst at a time, until
\* the limiter refuses them
NextQuota ==
    \/ \E c \in Clients :
          OneBurst(c, "cadastro") /\ limited_cadastro(c, N_al, E_a, P_secret)
    \/ \E c \in Clients :
          OneBurst(c, "login") /\ limited_login(c, E_a, P_secret)
    \/ \E c \in Clients, id \in Identities, f \in BOOLEAN :
          OneBurst(c, "chat") /\ limited_chat(c, id, M_oi, f)

SpecQuota == Init /\ [][NextQuota]_vars

\* two accounts log in, log out and go on using their tokens
NextLogout ==
    \/ \E e \in {E_a, E_b} : root_cadastro(N_al, e, P_secret)
    \/ \E e \in {E_a, E_b} : backend_cadastro(N_al, e, P_secret)
    \/ \E e \in {E_a, E_b} : root_login(e, P_secret, FALSE)
    \/ \E e \in {E_a, E_b} : backend_login(e, P_secret)
    \/ keep_token
    \/ \E c \in Credentials : logout(c)
    \/ \E id \in HeldIdentities : root_get_user_info(id)
    \/ \E id \in HeldIdentities : backend_get_user(id)
    \/ \E id \in HeldIdentities : root_chat(id, M_oi, None, FALSE)

SpecLogout == Init /\ [][NextLogout]_vars

\* registrations served at the same time, one by each thread
NextRace ==
    \/ \E t \in Threads, n \in Names, e \in Emails :
          root_cadastro_check(t, n, e, P_secret)
    \/ \E t \in Threads : root_cadastro_insert(t)
    \/ \E t \in Threads, n \in Names, e \in Emails :
          backend_cadastro_thread(t, n, e, P_secret)

SpecRace == Init /\ [][NextRace]_vars

\* two pictures analysed at the same time, one by each thread
NextVision ==
    \/ \E t \in Threads, i \in Pictures : vision_write(t, i)
    \/ \E t \in Threads : vision_stage1(t)
    \/ \E t \in Threads : vision_stage2(t)
    \/ \E t \in Threads : vision_finally(t)
    \/ \E t \in Threads, i \in Pictures : root_analisar_imagem(t, i)

SpecVision == Init /\ [][NextVision]_vars

\* two accounts of the variant that has a trial: their age, login, upgrade
NextTrial ==
    \/ Tick
    \/ \E e \in {E_a, E_b} : backend_cadastro(N_al, e, P_secret)
    \/ \E e \in {E_a, E_b}, p \in {P_secret, P_blank} : backend_login(e, p)
    \/ \E id \in Identities : pay(id)

SpecTrial == Init /\ [][NextTrial]_vars

\* one account and every chat request
NextChat ==
    \/ Tick
    \/ root_cadastro(N_al, E_a, P_secret)
    \/ backend_cadastro(N_al, E_a, P_secret)
    \/ \E id \in Identities, m \in Messages, g \in Images, f \in BOOLEAN :
          root_chat(id, m, g, f)
    \/ \E id \in Identities, m \in Messages, g \in Images, u \in Upstream, f \in BOOLEAN :
          backend_chat(id, m, g, u, f)
    \/ \E id \in Identities : pay(id)

SpecChat == Init /\ [][NextChat]_vars

\* two accounts, chat requests that carry the message "oi", histories
NextConversation ==
    \/ Tick
    \/ \E e \in {E_a, E_b} : root_cadastro(N_al, e, P_secret)
    \/ \E e \in {E_a, E_b} : backend_cadastro(N_al, e, P_secret)
    \/ \E id \in Identities, g \in Images : root_chat(id, M_oi, g, FALSE)
    \/ \E id \in Identities, g \in Images, u \in Upstream :
          backend_chat(id, M_oi, g, u, FALSE)
    \/ \E id \in Identities, l \in Limits : get_chat_history(id, l)
    \/ \E id \in Identities : pay(id)

SpecConversation == Init /\ [][NextConversation]_vars

\* one account whose client keeps its tokens; the protected routes called
\* with every credential; the account may be deleted
NextToken ==
    \/ Tick
    \/ root_cadastro(N_al, E_a, P_secret)
    \/ backend_cadastro(N_al, E_a, P_secret)
    \/ root_login(E_a, P_secret, FALSE)
    \/ backend_login(E_a, P_secret)
    \/ keep_token
    \/ \E i \in 1..Len(users) : delete_user(users[i].id)
    \/ \E ep \in ProtectedRoutes, c \in Credentials : jwt_rejected(ep, c)
    \/ \E id \in HeldIdentities : root_get_user_info(id)
    \/ \E id \in HeldIdentities : backend_get_user(id)
    \/ \E id \in HeldIdentities : root_chat(id, M_oi, None, FALSE)
    \/ \E id \in HeldIdentities, u \in Upstream : backend_chat(id, M_oi, None, u, FALSE)
    \/ \E id \in HeldIdentities : get_chat_history(id, 1)
    \/ \E id \in HeldIdentities : pay(id)
    \/ \E c \in Credentials : refresh(c)

SpecToken == Init /\ [][NextToken]_vars

\* two backend accounts, one of which keeps its token: upgrade, deletion and
\* report requests
NextReport ==
    \/ \E e \in {E_a, E_b} : backend_cadastro(N_al, e, P_secret)
    \/ \E e \in {E_a, E_b} : backend_login(e, P_secret)
    \/ keep_token
    \/ \E i \in 1..Len(users) : delete_user(users[i].id)
    \/ \E id \in HeldIdentities : pay(id)
    \/ \E id \in HeldIdentities, x \in Texts : generate_report_endpoint(id, x)

SpecReport == Init /\ [][NextReport]_vars


(* ============================== claims ================================ *)

\* the login handler of the running variant
login_out(us, t, email, password) ==
    IF variant = "root" THEN root_login_out(us, t, email, password)
    ELSE backend_login_out(us, t, email, password)

\* C1: after a registration answered 201 for a name of at least 2 characters,
\* an email containing "@" and a password of 6 to 72 characters, a login with
\* the same email and password answers 200 with a token whose identity is the
\* id of the row that registration created.
C1_RegisterThenLogin ==
    ( /\ resp.endpoint = "cadastro"
      /\ resp.status = 201
      /\ Len(resp.req.nome) >= 2
      /\ contains(resp.req.email, "@")
      /\ Len(resp.req.password) >= 6
      /\ Len(resp.req.password) <= 72 )
    => LET out == login_out(users, now, resp.req.email, resp.req.password)
       IN  /\ out.status = 200
           /\ int(out.body.access_token.sub) = users[Len(users)].id

C2_Cadastro(n, e, p) == root_cadastro(n, e, p) \/ backend_cadastro(n, e, p)

C2_EmailTaken(e) == \E i \in 1..Len(users) : users[i].email = lower(e)

C2_WellFormed(n, p) ==
    /\ Len(strip(n)) >= 2
    /\ Len(strip(p)) >= 6
    /\ Len(strip(p)) <= 72

\* the step is a registration (its request is kept in resp') of an email
\* that a stored user has already
C2_TakenEmailStep ==
    /\ resp'.endpoint = "cadastro"
    /\ C2_Cadastro(resp'.req.nome, resp'.req.email, resp'.req.password)
    /\ C2_EmailTaken(resp'.req.email)

\* C2 as claimed: once a user with email e exists, every registration whose
\* email equals e after lowercasing is answered 409 and inserts no user row.
C2_Original ==
    [][C2_TakenEmailStep => (resp'.status = 409 /\ users' = users)]_vars

\* C2 as amended: once a user with email e exists, every registration whose
\* email equals e after lowercasing inserts no user row and does not succeed;
\* it is answered 409 when its name and password are valid after trimming
\* (the handlers validate the input before they look at the email).
C2_Amended ==
    [][C2_TakenEmailStep
       => /\ users' = users
          /\ resp'.status # 201
          /\ C2_WellFormed(resp'.req.nome, resp'.req.password)
             => resp'.status = 409]_vars

\* a registration of "A@x" was answered 409 because "a@x" is registered
C2_Witness ==
    /\ resp.endpoint = "cadastro"
    /\ resp.status = 409
    /\ resp.req.email = E_A
    /\ \E i \in 1..Len(users) : users[i].email = E_a

C3_NoRecord(e) == select_by_email(users, strip(lower(e))) = <<>>

C3_WrongPassword(e, p) ==
    LET rows == select_by_email(users, strip(lower(e)))
    IN  rows # <<>> /\ ~bcrypt_verify(p, rows[1].password)

C3_InvalidCredentials ==
    IF variant = "root" THEN "Email ou senha incorretos" ELSE "Credenciais invalidas"

\* C3: a login whose email has no user record and a login whose email exists
\* but whose password is wrong get the same answer: status 401 and the one
\* invalid-credentials error body.
C3_SameAnswer ==
    ( /\ resp.endpoint = "login"
      /\ \/ C3_NoRecord(resp.req.email)
         \/ C3_WrongPassword(resp.req.email, resp.req.password) )
    => (resp.status = 401 /\ resp.error = C3_InvalidCredentials)


C4_Premium(u) == IF "is_premium" \in DOMAIN u THEN u.is_premium ELSE FALSE

C4_CreatedSecs(u) ==
    IF "created_at" \in DOMAIN u THEN u.created_at.secs
    ELSE fromisoformat(u.data_criacao).secs

\* the caller is not premium and the account is at least 30 days old
C4_TrialOver(id) ==
    LET rows == select_by_id(users, int(id))
    IN  /\ rows # <<>>
        /\ ~C4_Premium(rows[1])
        /\ now - C4_CreatedSecs(rows[1]) >= 30 * 86400

C4_ChatStep(id) ==
    \E m \in Messages, g \in Images, u \in Upstream, f \in BOOLEAN :
        root_chat(id, m, g, f) \/ backend_chat(id, m, g, u, f)

\* C4: a POST /api/chat from a non-premium user whose trial has expired is
\* answered 402 TRIAL_EXPIRED, invokes no collaborator and writes no chat row.
C4_TrialGate ==
    [][\A id \in Identities :
          (C4_ChatStep(id) /\ C4_TrialOver(id))
          => /\ resp'.status = 402
             /\ resp'.error = "TRIAL_EXPIRED"
             /\ resp'.invoked = {}
             /\ chats' = chats]_vars

\* C5: is_trial_expired is false for every premium user, whatever the age of
\* the account, in the store and in what login reports.
C5_PremiumNeverExpired ==
    variant = "backend"
    => /\ \A i \in 1..Len(users) :
             users[i].is_premium => ~is_trial_expired(users[i], now)
       /\ (resp.endpoint = "login" /\ resp.status = 200 /\ resp.body.user.is_premium)
          => ~resp.body.user.trial_expired

\* login has just answered for a premium account that is 30 days old or more
C5_Witness ==
    /\ variant = "backend"
    /\ resp.endpoint = "login"
    /\ resp.status = 200
    /\ resp.body.user.is_premium
    /\ \E i \in 1..Len(users) :
          /\ resp.body.access_token.sub = str(users[i].id)
          /\ users[i].is_premium
          /\ now - users[i].created_at.secs >= 30 * 86400

\* the login answer in resp was issued at the present clock reading
C6_JustAnswered ==
    /\ resp.endpoint = "login"
    /\ resp.status = 200
    /\ resp.body.access_token.exp = now + JWT_ACCESS_TOKEN_EXPIRES

\* C6: for a user that is not premium, is_trial_expired is true exactly when
\* 30 whole days or more lie between created_at and now: false up to
\* 29 days 23:59:59, true from 30 days 00:00:00 on.
C6_DayCount ==
    variant = "backend"
    => /\ \A i \in 1..Len(users) :
             ~users[i].is_premium
             => (is_trial_expired(users[i], now)
                 <=> now - users[i].created_at.secs >= 30 * 86400)
       /\ \A i \in 1..Len(users) :
             ( /\ C6_JustAnswered
               /\ resp.body.access_token.sub = str(users[i].id)
               /\ ~users[i].is_premium )
             => (resp.body.user.trial_expired
                 <=> now - users[i].created_at.secs >= 30 * 86400)

\* login has just reported trial_expired for an account created exactly
\* 30 days ago, to the second
C6_Witness ==
    /\ variant = "backend"
    /\ C6_JustAnswered
    /\ resp.body.user.trial_expired
    /\ \E i \in 1..Len(users) :
          /\ resp.body.access_token.sub = str(users[i].id)
          /\ ~users[i].is_premium
          /\ now - users[i].created_at.secs = 30 * 86400

\* C7: POST /api/pay/mock sets the caller's flag whatever it was and reports
\* success; it changes nothing else, and a call for a caller who is premium
\* already (a second call) leaves the whole store as it was.
C7_PayIdempotent ==
    [][\A id \in Identities :
          pay(id)
          => /\ resp'.status = 200
             /\ resp'.body.success
             /\ Len(users') = Len(users)
             /\ users'[int(id)].is_premium
             /\ users'[int(id)] = [users[int(id)] EXCEPT !.is_premium = TRUE]
             /\ \A j \in 1..Len(users) : j # int(id) => users'[j] = users[j]
             /\ users[int(id)].is_premium => users' = users
             /\ chats' = chats
             /\ sessoes' = sessoes]_vars

\* pay has just answered for one of two accounts; the other is not premium
C7_Witness ==
    /\ variant = "backend"
    /\ resp.endpoint = "pay"
    /\ resp.status = 200
    /\ Len(users) = 2
    /\ users[int(resp.ident)].is_premium
    /\ \E j \in 1..Len(users) : j # int(resp.ident) /\ ~users[j].is_premium

C8_Min(a, b) == IF a < b THEN a ELSE b

\* the k most recent rows of the caller, oldest first
C8_Window(k) ==
    LET mine == select_chats(chats, resp.ident)
    IN  [i \in 1..k |-> history_row(mine[Len(mine) - k + i])]

C8_SameRows(a, b) ==
    /\ Len(a) = Len(b)
    /\ \E p \in [1..Len(a) -> 1..Len(a)] :
          /\ \A i, j \in 1..Len(a) : i # j => p[i] # p[j]
          /\ \A i \in 1..Len(a) : a[i] = b[p[i]]

\* C8: for a user with n stored messages and a limit L <= 100, the history
\* holds exactly the min(L, n) most recent messages of that user, oldest
\* first (messages of the same second in either order).
C8_HistoryWindow ==
    (resp.endpoint = "history" /\ resp.req.limit <= 100)
    => LET got == resp.body.chats
           k == C8_Min(resp.req.limit, Len(select_chats(chats, resp.ident)))
       IN  /\ Len(got) = k
           /\ C8_SameRows(got, C8_Window(k))
           /\ \A i, j \in 1..Len(got) :
                 i < j => got[i].created_at.iso.secs <= got[j].created_at.iso.secs

\* C9: when a collaborator has answered and the INSERT of the chat row fails,
\* POST /api/chat still answers 200 with the answer.
C9_AnswerSurvives ==
    [][\A id \in Identities, m \in Messages, g \in Images, u \in Upstream :
          ( /\ root_chat(id, m, g, TRUE) \/ backend_chat(id, m, g, u, TRUE)
            /\ resp'.invoked # {} )
          => /\ resp'.status = 200
             /\ resp'.error = ""
             /\ resp'.body.response \in
                   { autoai_gerar_resposta(m, id, "geral"),
                     nogai_gerar_resposta(m, id, u),
                     analisar_imagem(g, m, u) }]_vars

\* C10: a POST /api/chat with neither a message nor an image, or with a
\* message of more than 2000 characters, is answered 400, invokes no
\* collaborator and writes no chat row.
C10_Rejected ==
    [][\A id \in Identities, m \in Messages, g \in Images, u \in Upstream,
          f \in BOOLEAN :
          ( /\ root_chat(id, m, g, f) \/ backend_chat(id, m, g, u, f)
            /\ \/ m = None /\ g = None
               \/ m # None /\ Len(m) > 2000 )
          => /\ resp'.status = 400
             /\ resp'.invoked = {}
             /\ chats' = chats]_vars

\* C11: a protected route called with a missing, malformed, wrongly signed or
\* expired token answers 401, changes no stored row and calls no collaborator.
C11_BadTokenUnauthorized ==
    [][\A ep \in ProtectedRoutes, c \in Credentials :
          jwt_rejected(ep, c)
          => /\ resp'.status = 401
             /\ resp'.invoked = {}
             /\ users' = users
             /\ chats' = chats
             /\ sessoes' = sessoes]_vars

\* the failure mode of a credential at the present clock reading
C12_Mode(c) ==
    IF c.kind = "missing" THEN "Missing"
    ELSE IF c.kind = "malformed" THEN "Invalid"
    ELSE IF c.signed_by # "server" THEN "Invalid"
    ELSE IF c.tok.exp <= now THEN "Expired"
    ELSE "none"

\* what of the rejection could serve as the code: the status, the message,
\* or both (the answer has no other field)
C12_Code(c, part) ==
    LET v == jwt_required(c, now)
    IN  IF part = "status" THEN <<v.status>>
        ELSE IF part = "msg" THEN <<v.msg>>
        ELSE <<v.status, v.msg>>

C12_Failing == {c \in Credentials : C12_Mode(c) # "none"}

\* C12: the rejections of Missing, Invalid and Expired tokens carry a code
\* that is the same for one mode and different for two modes.
C12_DistinctStableCodes ==
    \E part \in {"status", "msg", "both"} :
        \A c1, c2 \in C12_Failing :
            (C12_Mode(c1) = C12_Mode(c2)) <=> (C12_Code(c1, part) = C12_Code(c2, part))

C13_IsPremium(us, ident) ==
    \E i \in 1..Len(us) : us[i].id = int(ident) /\ us[i].is_premium

\* C13: a report request with text from a caller who has no user row or is
\* not premium is answered 403 without a call of the PDF generator; the
\* generator is called for premium callers only.
C13_PremiumOnly ==
    [][\A id \in HeldIdentities, x \in Texts :
          generate_report_endpoint(id, x)
          => /\ (truthy(x) /\ ~C13_IsPremium(users, id))
                => (resp'.status = 403 /\ resp'.invoked = {})
             /\ ("criar_relatorio_pdf" \in resp'.invoked) => C13_IsPremium(users, id)]_vars

\* a report with text was refused to a caller whose row is gone, while
\* another account is still stored
C13_Witness ==
    /\ resp.endpoint = "report"
    /\ resp.status = 403
    /\ truthy(resp.req.text)
    /\ select_by_id(users, int(resp.ident)) = <<>>
    /\ users # <<>>

C14_NoRecord(id) == select_by_id(users, int(id)) = <<>>

C14_UserStep(id) == root_get_user_info(id) \/ backend_get_user(id)

C14_ChatStep(id) ==
    \E m \in Messages, g \in Images, u \in Upstream, f \in BOOLEAN :
        root_chat(id, m, g, f) \/ backend_chat(id, m, g, u, f)

\* C14: with a valid access token whose subject has no user row, GET /api/user
\* and POST /api/chat answer 404, and the chat request calls no collaborator
\* and writes no chat row.
C14_UserMissing ==
    [][\A id \in HeldIdentities :
          C14_NoRecord(id)
          => /\ C14_UserStep(id) => resp'.status = 404
             /\ C14_ChatStep(id)
                => (resp'.status = 404 /\ resp'.invoked = {} /\ chats' = chats)]_vars

C15_Invalid(req) ==
    \/ Len(req.nome) < 2
    \/ ~contains(req.email, "@")
    \/ req.password = None
    \/ Len(req.password) < 6
    \/ Len(req.password) > 72

\* C15: a registration whose name is shorter than 2 characters, whose email
\* has no "@", or whose password is missing, shorter than 6 or longer than 72
\* characters is answered 400 and leaves the users table unchanged.
C15_InvalidRejected ==
    [][(/\ resp'.endpoint = "cadastro"
        /\ C2_Cadastro(resp'.req.nome, resp'.req.email, resp'.req.password)
        /\ C15_Invalid(resp'.req))
       => (resp'.status = 400 /\ users' = users)]_vars

\* a chat request during which the collaborator it calls fails: in the root
\* variant every call of gerar_resposta fails at its first statement
C16_FailingChatStep ==
    \/ \E id \in Identities : root_chat(id, M_oi, None, FALSE)
    \/ \E id \in Identities, i \in Images :
          backend_chat(id, M_oi, i, "raises", FALSE)

\* C16: when the text or image collaborator fails during a chat request,
\* POST /api/chat answers 500 with an error field, not 200.
C16_UpstreamFailureIs500 ==
    [][C16_FailingChatStep => (resp'.status = 500 /\ resp'.error # "")]_vars

\* C17: every storage connection a handler opened is closed by the time the
\* handler returns, on the success path and on every failure path: after any
\* sequence of requests no connection of a finished handler is still open.
C17_ConnectionsClosed == db.closed = db.opened

\* client address c has used up a limit of the route in the current window
C18_Spent(c, endpoint) ==
    \E i \in 1..Len(route_limits(endpoint)) :
        LET l == route_limits(endpoint)[i]
        IN  hit_count(hits, <<c, endpoint, l.per>>, now) >= l.amount

\* a request of client address c to one of the three routes
C18_Request(c, endpoint) ==
    IF endpoint = "cadastro" THEN limited_cadastro(c, N_al, E_a, P_secret)
    ELSE IF endpoint = "login" THEN limited_login(c, E_a, P_secret)
    ELSE \E id \in Identities, f \in BOOLEAN : limited_chat(c, id, M_oi, f)

\* C18: registration, login and chat have a quota per client address; a
\* request over its client's quota is answered 429 before the handler body
\* runs (no storage read or write, no collaborator call), and a request of
\* a client within its quota is not refused, whatever other clients sent.
C18_QuotaPerClient ==
    [][\A c \in Clients, endpoint \in LimitedRoutes :
          C18_Request(c, endpoint)
          => IF C18_Spent(c, endpoint)
             THEN /\ resp'.status = 429
                  /\ resp'.invoked = {}
                  /\ db'.opened = 0
                  /\ users' = users /\ chats' = chats /\ sessoes' = sessoes
             ELSE resp'.status # 429]_vars

\* a chat request was refused for one address while the other address has
\* not used up its chat quota
C18_Witness ==
    /\ resp.endpoint = "chat"
    /\ resp.status = 429
    /\ C18_Spent("10.0.0.1", "chat")
    /\ ~C18_Spent("10.0.0.2", "chat")
    /\ users # <<>>

\* C19: in every reachable state each chat row references an existing user:
\* deleting a user row removes that user's chat rows, so no chat row
\* outlives its owner.
C19_ChatsHaveOwner ==
    \A i \in 1..Len(chats) : select_by_id(users, chats[i].user_id) # <<>>

C20_ValidRefresh(c) ==
    /\ c.kind = "token"
    /\ c.signed_by = "server"
    /\ c.tok.typ = "refresh"
    /\ c.tok.exp > now

\* C20: POST /api/refresh with a valid refresh token answers 200 with a new
\* access token for the token's user, and with a new refresh token exactly
\* when that user is premium; an invalid or expired refresh token gets 401.
C20_Refresh ==
    [][\A c \in Credentials :
          refresh(c)
          => IF C20_ValidRefresh(c)
             THEN /\ resp'.status = 200
                  /\ "access_token" \in DOMAIN resp'.body
                  /\ resp'.body.access_token.sub = c.tok.sub
                  /\ resp'.body.access_token.exp = now + JWT_ACCESS_TOKEN_EXPIRES
                  /\ ("refresh_token" \in DOMAIN resp'.body)
                        <=> C13_IsPremium(users, c.tok.sub)
             ELSE resp'.status = 401]_vars

\* the request carries a message or an image, and no message over the limit
C21_Valid(m, g) ==
    /\ truthy(m) \/ truthy(g)
    /\ m = None \/ Len(m) <= 2000

\* the chat row a request wrote: the last row of the table
C21_Written == chats'[Len(chats')]

\* C21: a chat request that passes validation and the trial gate invokes one
\* collaborator, image analysis when an image is present and text generation
\* otherwise, and writes one chat row that holds the user's message, or the
\* image placeholder for an image without message, and the answer.
C21_Dispatch ==
    [][\A id \in Identities, m \in Messages, g \in Images, u \in Upstream :
          ( /\ root_chat(id, m, g, FALSE) \/ backend_chat(id, m, g, u, FALSE)
            /\ C21_Valid(m, g)
            /\ ~C4_TrialOver(id) )
          => /\ resp'.status = 200
             /\ resp'.invoked = IF truthy(g) THEN {"analisar_imagem"}
                                ELSE {"gerar_resposta"}
             /\ Len(chats') = Len(chats) + 1
             /\ SubSeq(chats', 1, Len(chats)) = chats
             /\ C21_Written.user_id = int(id)
             /\ C21_Written.mensagem_usuario = IF truthy(m) THEN m ELSE ImagemPlaceholder
             /\ C21_Written.resposta_ia = resp'.body.response]_vars

\* C22: for a premium user and a non-empty text, POST /api/report invokes
\* the PDF generator with that text and answers 200 with the artifact URL
\* the generator produced.
C22_PremiumReport ==
    [][\A id \in HeldIdentities, x \in Texts :
          ( /\ generate_report_endpoint(id, x)
            /\ truthy(x)
            /\ C13_IsPremium(users, id) )
          => /\ resp'.status = 200
             /\ resp'.invoked = {"criar_relatorio_pdf"}
             /\ "url" \in DOMAIN resp'.body]_vars

\* the last request was a logout that succeeded for the token it presented
C23_LoggedOut == resp.endpoint = "logout" /\ resp.status = 200

\* a request to a protected route that presents the token of that logout
C23_ProtectedStep ==
    \/ root_get_user_info(resp.req.cred.tok.sub)
    \/ backend_get_user(resp.req.cred.tok.sub)
    \/ root_chat(resp.req.cred.tok.sub, M_oi, None, FALSE)

\* C23: after POST /api/logout has succeeded for access token T, a request
\* to a protected route that presents T is answered 401.
C23_LogoutInvalidates ==
    [][(C23_LoggedOut /\ C23_ProtectedStep) => resp'.status = 401]_vars

\* the email a registration stores
C24_Normalized(e) == strip(lower(e))

\* the threads that have answered a registration of email e with a valid name
C24_Registered(e) ==
    {t \in Threads : /\ threads[t].pc = "done"
                     /\ threads[t].op = "cadastro"
                     /\ Len(strip(threads[t].req.nome)) >= 2
                     /\ C24_Normalized(threads[t].req.email) = e}

\* C24: when registrations of the same normalized email are served at the
\* same time, the table never holds two rows of that email, one of them is
\* answered 201 and each of the others 409.
C24_OneWinner ==
    /\ \A i, j \in 1..Len(users) : users[i].email = users[j].email => i = j
    /\ \A e \in {C24_Normalized(x) : x \in Emails} :
          C24_Registered(e) = Threads
          => /\ Cardinality({t \in Threads : threads[t].status = 201}) = 1
             /\ \A t \in Threads : threads[t].status \in {201, 409}

\* the bytes of the picture thread t was given
C25_Own(t) == b64decode(split_comma(threads[t].image))

\* C25: when two analisar_imagem calls run at the same time, the vision
\* call of each reads the bytes decoded from its own input, and the answer
\* of each is based on the stage-1 result of that same request.
C25_OwnPicture ==
    \A t \in Threads :
        (threads[t].pc # "idle" /\ threads[t].op = "vision")
        => /\ "seen" \in DOMAIN threads[t] => threads[t].seen = C25_Own(t)
           /\ "based_on" \in DOMAIN threads[t]
                 => threads[t].based_on = facts(C25_Own(t))

\* every exchange of the answer is a stored chat row of user id
C26_OwnRows(id, got) ==
    \A i \in 1..Len(got) :
        \E j \in 1..Len(chats) :
            chats[j].user_id = int(id) /\ history_row(chats[j]) = got[i]

\* the later answer starts with the earlier one
C26_Extends(earlier, later) ==
    /\ Len(earlier) <= Len(later)
    /\ SubSeq(later, 1, Len(earlier)) = earlier

\* no step modifies or removes a chat row
C26_RowsKept ==
    /\ Len(chats) <= Len(chats')
    /\ SubSeq(chats', 1, Len(chats)) = chats

\* C26: the history of user u holds only exchanges recorded by u's own chat
\* requests; chat rows are never modified or removed, so a later history of
\* u extends an earlier one in the same order.
C26_HistoryGrows ==
    [][/\ C26_RowsKept
       /\ \A id \in Identities, l \in Limits :
             get_chat_history(id, l)
             => /\ C26_OwnRows(id, resp'.body.chats)
                /\ (resp.endpoint = "history" /\ resp.ident = id)
                      => C26_Extends(resp.body.chats, resp'.body.chats)]_vars

====
